---- MODULE Spec2Model ----
(***************************************************************************)
(* A model of the io_uring event loop (event_loop::EventLoop): the         *)
(* registry of operation records, the submission ring and the kernel, the  *)
(* submit guard, the run loop with its handlers, and the queue of          *)
(* dispatched callbacks.  User code (main before run, a continuation, a    *)
(* dispatched callback) is an arbitrary sequence of calls of the public    *)
(* interface made on the reactor thread.                                   *)
(***************************************************************************)
EXTENDS Integers, Sequences, FiniteSets, Bags, TLC

(* ---------------------------- bounds ----------------------------------- *)
\* operation calls made over the reactor's lifetime
MaxId == 2
\* largest submission queue depth given to io_uring_queue_init
MaxDepth == 2
\* SubmitGuard objects alive at once
MaxGuards == 1
\* dispatch calls made over the reactor's lifetime
MaxDispatch == 3
\* threads other than the reactor thread
NumThreads == 1
\* clock ticks
MaxNow == 1
\* longest timer duration, in ticks
MaxDuration == 1
\* calls of io_uring_submit and io_uring_wait_cqe_timeout that fail
MaxFaults == 1
\* bytes in the file a read-file reads
FileSize == 2
\* bytes one read-file hands to its continuation
MaxDelivered == 3
\* longest byte stream on standard input
MaxStream == 3
\* Buffer objects user code holds at a time
MaxViews == 2
\* BufferData objects allocated in a run
MaxStorages == 2
\* largest size a Buffer is allocated with
MaxSize == 2
\* bits of std::size_t
SizeBits == 2

(* -------------------------- program constants -------------------------- *)
\* std::chrono::nanoseconds::period::den
Den == 1000000000
\* first identifier
FirstEventId == 1
\* errno of a wait that timed out
ETIME == 62
\* errno of a wait that was interrupted
EINTR == 4
\* one tick of the model's clock, in nanoseconds
TickNs == Den \div 2

VARIABLES
    depth,              \* the depth the EventLoop was constructed with
    faults,             \* failed calls into the ring so far
    mNextEventId,       \* EventLoop::mNextEventId
    mEvents,            \* EventLoop::mEvents: identifier -> record
    sq,                 \* entries prepared in the ring, not yet submitted
    inflight,           \* entries the kernel holds (a bag)
    cq,                 \* completion entries posted and not yet seen
    guardStack,         \* the live SubmitGuard objects, innermost last
    mDispatched,        \* EventLoop::mDispatched
    mDispatchedMutex,   \* owner of EventLoop::mDispatchedMutex
    nextToken,          \* names the next dispatched callback
    executed,           \* how often each dispatched callback has run
    stop,               \* the std::stop_source
    pc,                 \* where the reactor thread is
    unwinding,          \* an EventLoopException is propagating
    drain,              \* executeDispatched's loop: position and cached end
    now,                \* TimerEvent::Clock, in ticks
    run,                \* history of the current call of run
    failed,             \* identifiers of the calls that raised
    last,               \* the step just taken
    stdin,              \* standard input: its bytes, and how many were read
    readLine,           \* the read_line operation and its accumulator
    lines,              \* the lines handed to read_line's continuation
    views,              \* the Buffer objects user code holds
    storages            \* the BufferData objects

loopVars == <<depth, faults, mNextEventId, mEvents, sq, inflight, cq,
              guardStack, mDispatched, mDispatchedMutex, nextToken, executed,
              stop, pc, unwinding, drain, now, run, failed, last>>

lineVars == <<stdin, readLine, lines>>

bufferVars == <<views, storages>>

\* what the operations of the loop leave alone
aside == <<lineVars, bufferVars>>

vars == <<loopVars, aside>>

(* ------------------------------ buffers --------------------------------- *)
\* std::size_t arithmetic
Word == 2 ^ SizeBits
Plus(a, b) == (a + b) % Word

\* a Buffer that does not exist (not constructed yet, or destroyed)
NoView == [live |-> FALSE, mUnderlying |-> 0, mOffset |-> 0, mSize |-> 0]

\* the fields of a null Buffer: mUnderlying = nullptr
NullView == [live |-> TRUE, mUnderlying |-> 0, mOffset |-> 0, mSize |-> 0]

\* a BufferData that has not been allocated
NoStorage == [state |-> "none", mSize |-> 0, mUseCount |-> 0, mData |-> << >>]

\* std::memset(mData.get(), 0, mSize)
Zeros(size) == [i \in 1 .. size |-> 0]

\* a clear that zeroes the bytes of the view's window alone
ClearedWindowOnly(store, view) ==
    IF view.mUnderlying = 0 THEN store
    ELSE [store EXCEPT ![view.mUnderlying].mData =
            [i \in 1 .. Len(@) |->
                IF i > view.mOffset /\ i <= view.mOffset + view.mSize
                THEN 0 ELSE @[i]]]

\* Buffer::clear: BufferData::clear on the storage, nothing for a null view
ClearedStorage(store, view) ==
    IF view.mUnderlying = 0 THEN store
    ELSE [store EXCEPT ![view.mUnderlying].mData =
                            Zeros(store[view.mUnderlying].mSize)]

\* BufferData::increaseUse
increaseUse(store, s) == [store EXCEPT ![s].mUseCount = @ + 1]

\* a decreaseUse that deletes the BufferData whatever the count
decreaseUseAndDelete(store, s) ==
    IF s = 0 THEN store
    ELSE [store EXCEPT ![s].mUseCount = @ - 1, ![s].state = "released"]

\* Buffer::decreaseUse on a view of storage s (0: a null view): the count
\* goes down and the BufferData is deleted when it reaches zero
decreaseUse(store, s) ==
    IF s = 0 THEN store
    ELSE IF store[s].mUseCount = 1
         THEN [store EXCEPT ![s].mUseCount = 0, ![s].state = "released"]
         ELSE [store EXCEPT ![s].mUseCount = @ - 1]

\* Buffer::data: mUnderlying->data() + mOffset, nullptr for a null view
Data(view) ==
    IF view.mUnderlying # 0
    THEN [base |-> view.mUnderlying, at |-> view.mOffset]
    ELSE [base |-> 0, at |-> 0]

\* Buffer::size
Size(view) == IF view.mUnderlying # 0 THEN view.mSize ELSE 0

\* the bytes size() and data() give access to
Bytes(store, view) ==
    [i \in 1 .. Size(view) |-> store[view.mUnderlying].mData[view.mOffset + i]]

\* Buffer::slice on a non-null view: the two range tests, made in
\* std::size_t, and the view returned
Slice(store, view, offset, size) ==
    LET whole == store[view.mUnderlying].mSize IN
    IF offset >= whole
    THEN [threw |-> TRUE, view |-> NoView]
    ELSE IF Plus(offset, size) > whole
    THEN [threw |-> TRUE, view |-> NoView]
    ELSE [threw |-> FALSE,
          view |-> [live |-> TRUE, mUnderlying |-> view.mUnderlying,
                    mOffset |-> offset, mSize |-> size]]

FreeStorages == {s \in 1 .. MaxStorages : storages[s].state = "none"}
FreeViews == {v \in 1 .. MaxViews : ~views[v].live}
LiveViews == {v \in 1 .. MaxViews : views[v].live}

(* ------------------------------ events --------------------------------- *)
\* the event types of events.h
Kinds == {"Close", "Timer", "Accept", "Connect", "Receive", "Send",
          "OpenFile", "ReadFile", "WriteFile", "ReadFileStats"}

\* the public operations of EventLoop
Ops == Kinds \cup {"OpenFileDefault", "ReadLine"}

\* the event type an operation creates
OpKind(op) ==
    CASE op = "OpenFileDefault" -> "OpenFile"
      [] op = "ReadLine" -> "ReadFile"
      [] OTHER -> op

\* the events whose handle may submit again
Repeatable == {"Timer", "Accept", "Receive", "ReadFile"}

Threads == 1 .. NumThreads
Reactor == 0
NoOwner == -1

ZeroTimeSpec == [tv_sec |-> 0, tv_nsec |-> 0]

\* a conversion that leaves the whole delay in the nanosecond field
createKernelTimeSpecUnsplit(delay) ==
    IF delay > 0 THEN [tv_sec |-> 0, tv_nsec |-> delay] ELSE ZeroTimeSpec

createKernelTimeSpec(delay) ==
    IF delay > 0
    THEN [tv_sec |-> delay \div Den, tv_nsec |-> delay % Den]
    ELSE ZeroTimeSpec

Max(a, b) == IF a >= b THEN a ELSE b

\* enum class SocketType
Inet == 0
Unix == 1
SocketTypes == {Inet, Unix}

\* sizeof(socklen_t), sizeof(sa_family_t), sizeof(sockaddr_in) and
\* sizeof(sockaddr_un)
SizeofSocklenT == 4
SizeofSaFamily == 2
SizeofSockaddrIn == 16
SizeofSockaddrUn == 110

\* the size of the sockaddr structure of an address family
SizeofSockaddr(type) ==
    IF type = Inet THEN SizeofSockaddrIn ELSE SizeofSockaddrUn

\* defaultFor: the zero address of the alternative of SocketAddress that
\* belongs to the socket type
defaultFor(type) == [type |-> type, zero |-> TRUE]

\* clientAddress = {}: the variant is assigned a value-initialised variant,
\* which holds its first alternative, sockaddr_in
ClearedAddress(address) == [type |-> Inet, zero |-> TRUE]

\* the record an operation's createEvent constructs; arg is the duration of
\* a timer and the offset of a read-file (read_line reads from offset 0);
\* first and got remember where a read-file started and the bytes it has
\* handed to its continuation
NewEvent(op, cb, arg) ==
    [kind |-> OpKind(op),
     cb |-> IF op = "ReadLine" THEN TRUE ELSE cb,
     startTime |-> IF op = "Timer" THEN now ELSE 0,
     duration |-> IF op = "Timer" THEN arg ELSE 0,
     eventDelay |-> ZeroTimeSpec,
     offset |-> IF op = "ReadFile" THEN arg ELSE 0,
     first |-> IF op = "ReadFile" THEN arg ELSE 0,
     got |-> 0,
     buffer |-> NoView,
     serverAddress |-> IF op = "Connect" THEN arg ELSE 0,
     server |-> IF op = "Accept" THEN arg ELSE Inet,
     clientAddress |-> defaultFor(IF op = "Accept" THEN arg ELSE Inet),
     clientAddressLength |-> SizeofSocklenT]

\* what mEvents[id] inserts for an identifier it does not hold
NullEvent ==
    [kind |-> "Null", cb |-> FALSE, startTime |-> 0, duration |-> 0,
     eventDelay |-> ZeroTimeSpec, offset |-> 0, first |-> 0, got |-> 0,
     buffer |-> NoView, serverAddress |-> 0, server |-> Inet,
     clientAddress |-> defaultFor(Inet),
     clientAddressLength |-> SizeofSocklenT]

\* mEvents.emplace(id, ...)
createEvent(events, id, ev) ==
    [i \in DOMAIN events \cup {id} |-> IF i = id THEN ev ELSE events[i]]

\* mEvents.erase(id)
removeEvent(events, id) ==
    [i \in DOMAIN events \ {id} |-> events[i]]

\* EventLoop::timer(TimerEvent&): the delay programmed into the record
TimerSleepTime(ev) ==
    Max(0, ev.duration - (now - ev.startTime) * TickNs)

\* the record after the private overload prepared its entry
Prepared(ev) ==
    IF ev.kind = "Timer"
    THEN [ev EXCEPT !.eventDelay = createKernelTimeSpec(TimerSleepTime(ev))]
    ELSE ev

\* the submission entry the private overload prepares
Sqe(ev, id, g) ==
    [id |-> id, opcode |-> ev.kind, guard |-> g,
     ts |-> Prepared(ev).eventDelay, deadline |-> 0, fire |-> FALSE,
     offset |-> ev.offset]

\* io_uring_get_sqe: NULL when the ring holds depth entries
SqFull == Len(sq) >= depth

(* ------------------------------ the ring -------------------------------- *)
TimeSpecNs(ts) == ts.tv_sec * Den + ts.tv_nsec

\* an entry as the kernel takes it: a timeout starts counting now
Taken(e) ==
    IF e.opcode = "Timer"
    THEN [e EXCEPT !.deadline = now * TickNs + TimeSpecNs(e.ts)]
    ELSE e

RECURSIVE SeqToBag(_)
SeqToBag(s) ==
    IF s = <<>> THEN EmptyBag
    ELSE SetToBag({Taken(Head(s))}) (+) SeqToBag(Tail(s))

\* a submit that empties the queue and hands nothing over
FlushedNowhere(queue, held) == held

\* io_uring_submit that succeeds: every queued entry goes to the kernel
Flushed(queue, held) == held (+) SeqToBag(queue)

\* the three signs a completion's result can have
Results == {-1, 0, 1}

\* the private overload op(event, submit): getSqe, prepare the entry, stamp
\* its user_data, submitRing(submit); ok is io_uring_submit's outcome
Overload(ev, id, g, ok) ==
    IF SqFull
    THEN [raised |-> TRUE, sq |-> sq, inflight |-> inflight, ev |-> ev,
          submits |-> 0, counted |-> 0, rearm |-> "refused"]
    ELSE LET queued == Append(sq, Sqe(ev, id, g)) IN
         IF g # 0
         THEN [raised |-> FALSE, sq |-> queued, inflight |-> inflight,
               ev |-> Prepared(ev), submits |-> 0, counted |-> 1,
               rearm |-> "queued"]
         ELSE IF ok
         THEN [raised |-> FALSE, sq |-> <<>>,
               inflight |-> Flushed(queued, inflight), ev |-> Prepared(ev),
               submits |-> 1, counted |-> 0, rearm |-> "submitted"]
         ELSE [raised |-> TRUE, sq |-> queued, inflight |-> inflight,
               ev |-> Prepared(ev), submits |-> 1, counted |-> 0,
               rearm |-> "queued"]

\* the guard the public overload hands to the private one
PassedGuard(op, g) == IF op = "OpenFileDefault" THEN 0 ELSE g

\* a catch block that rethrows and forgets removeEvent
CatchRethrowOnly(events, id) == events

\* the catch block of a public overload: removeEvent(event.id); throw
CatchRollback(events, id) == removeEvent(events, id)

(* ------------------------------ steps ----------------------------------- *)
NoStep ==
    [act |-> "other", guarded |-> FALSE, k |-> 0, counted |-> 0,
     submits |-> 0, raised |-> FALSE, kind |-> "", invoked |-> FALSE,
     ret |-> FALSE, res |-> 0, early |-> FALSE, retained |-> FALSE,
     rearm |-> "none", id |-> 0, redelivered |-> FALSE, size |-> 0,
     offset |-> 0, readAt |-> 0, threw |-> FALSE, view |-> 0, from |-> 0,
     error |-> << >>, serverAddress |-> 0]

UserPcs == {"main", "callback", "deferred"}
Dead == {"crashed", "terminated", "ring_exit", "destroyed"}

NoRun == [stopAtCall |-> FALSE, stopSet |-> FALSE, handledAfterStop |-> FALSE]

InUserCode == pc \in UserPcs /\ ~unwinding

\* read_line has not been called
NoReadLine ==
    [reader |-> "none", chunk |-> << >>, result |-> 0, line |-> << >>,
     patience |-> 0, stopped |-> FALSE, refusals |-> 0, handled |-> 0]

InitLoop ==
    /\ depth \in 1 .. MaxDepth
    /\ faults = 0
    /\ mNextEventId = FirstEventId
    /\ mEvents = << >>
    /\ sq = << >>
    /\ inflight = EmptyBag
    /\ cq = << >>
    /\ guardStack = << >>
    /\ mDispatched = << >>
    /\ mDispatchedMutex = NoOwner
    /\ nextToken = 1
    /\ executed = [t \in 1 .. MaxDispatch |-> 0]
    /\ stop = FALSE
    /\ pc = "main"
    /\ unwinding = FALSE
    /\ drain = [i |-> 1, end |-> 0, due |-> 0]
    /\ now = 0
    /\ run = NoRun
    /\ failed = {}
    /\ last = NoStep

\* no Buffer has been constructed
InitBuffers ==
    /\ views = [v \in 1 .. MaxViews |-> NoView]
    /\ storages = [s \in 1 .. MaxStorages |-> NoStorage]

Init ==
    /\ InitLoop
    /\ stdin = [stream |-> << >>, consumed |-> 0]
    /\ readLine = NoReadLine
    /\ lines = << >>
    /\ InitBuffers

\* a createEvent that leaves mNextEventId as it is
NotIncremented(id) == id

\* createEvent: mNextEventId++
Incremented(id) == id + 1

\* the operations that take a Buffer
TakesBuffer == {"Receive", "Send", "ReadFile", "WriteFile", "ReadLine"}

\* a public operation called by user code on the reactor thread; g is the
\* guard passed (0: none), ok the outcome of io_uring_submit if it is called,
\* caught whether the caller catches the exception the call may raise, b the
\* Buffer object moved into the call (0: the buffer is not followed); the
\* record holds the buffer, and the catch block destroys it with the record
CallWith(op, g, cb, arg, ok, caught, b) ==
    /\ InUserCode
    /\ mNextEventId <= MaxId
    /\ g \in 0 .. Len(guardStack)
    /\ b # 0 => op \in TakesBuffer /\ b \in LiveViews
    /\ LET id == mNextEventId
           held == IF b = 0 THEN NoView ELSE views[b]
           r == Overload([NewEvent(op, cb, arg) EXCEPT !.buffer = held], id,
                         PassedGuard(op, g), ok)
           created == createEvent(mEvents, id, r.ev)
       IN  /\ mNextEventId' = Incremented(id)
           /\ views' = IF b = 0 THEN views
                        ELSE [views EXCEPT ![b] = NullView]
           /\ storages' = IF r.raised
                           THEN decreaseUse(storages, held.mUnderlying)
                           ELSE storages
           /\ mEvents' = IF r.raised THEN CatchRollback(created, id)
                                     ELSE created
           /\ sq' = r.sq
           /\ inflight' = r.inflight
           /\ guardStack' = IF r.counted > 0
                            THEN [guardStack EXCEPT
                                    ![PassedGuard(op, g)].n = @ + r.counted]
                            ELSE guardStack
           /\ failed' = IF r.raised THEN failed \cup {id} ELSE failed
           /\ unwinding' = ~caught
           /\ (r.raised \/ caught)
           /\ (r.submits > 0 \/ ok)
           /\ (ok \/ faults < MaxFaults)
           /\ faults' = IF ok THEN faults ELSE faults + 1
           /\ last' = [NoStep EXCEPT !.act = "Call", !.guarded = (g # 0),
                         !.id = id, !.counted = r.counted,
                         !.submits = r.submits, !.raised = r.raised]
    /\ UNCHANGED lineVars
    /\ UNCHANGED <<depth, cq, mDispatched, mDispatchedMutex, nextToken,
                   executed, stop, pc, drain, now, run>>


\* a call that moves no Buffer object of the caller
Call(op, g, cb, arg, ok, caught) == CallWith(op, g, cb, arg, ok, caught, 0)

(* --------------------------- the submit guard --------------------------- *)
\* SubmitGuard::SubmitGuard
GuardCreate ==
    /\ InUserCode
    /\ Len(guardStack) < MaxGuards
    /\ guardStack' = Append(guardStack, [n |-> 0, scope |-> pc])
    /\ last' = NoStep
    /\ UNCHANGED aside
    /\ UNCHANGED <<depth, faults, mNextEventId, mEvents, sq, inflight, cq, mDispatched,
                   mDispatchedMutex, nextToken, executed, stop, pc, unwinding,
                   drain, now, run, failed>>

\* a destructor that submits once for every entry counted
SubmitsPerEntry(mSubmitted) == mSubmitted

\* the calls of submitRing(nullptr) the destructor makes
DestructorSubmits(mSubmitted) == IF mSubmitted > 0 THEN 1 ELSE 0

\* an entry once the guard it was prepared under is gone
Released(e, g) == IF e.guard = g THEN [e EXCEPT !.guard = 0] ELSE e

ReleasedSeq(s, g) == [i \in DOMAIN s |-> Released(s[i], g)]

ReleasedBag(b, g) ==
    LET from == BagToSet(b)
        to == {Released(e, g) : e \in from}
        Sum(x) == CopiesIn(x, b)
                  + (IF x.guard = 0 /\ [x EXCEPT !.guard = g] \in from
                     THEN CopiesIn([x EXCEPT !.guard = g], b) ELSE 0)
    IN  [x \in to |-> IF x.guard = 0 /\ g # 0 THEN Sum(x) ELSE CopiesIn(x, b)]

\* SubmitGuard::~SubmitGuard, on the normal path out of the scope and while
\* an exception unwinds it; a failed io_uring_submit throws out of the
\* destructor, which ends the process
GuardDestroy(ok) ==
    /\ pc \in UserPcs
    /\ guardStack # << >>
    /\ LET g == Len(guardStack)
           k == guardStack[g].n
           n == DestructorSubmits(k)
           flushed == n > 0 /\ ok
       IN  /\ guardStack[g].scope = pc
           /\ guardStack' = SubSeq(guardStack, 1, g - 1)
           /\ sq' = IF flushed THEN << >> ELSE ReleasedSeq(sq, g)
           /\ inflight' = IF flushed
                          THEN ReleasedBag(Flushed(sq, inflight), g)
                          ELSE ReleasedBag(inflight, g)
           /\ pc' = IF n > 0 /\ ~ok THEN "terminated" ELSE pc
           /\ (n > 0 \/ ok)
           /\ (ok \/ faults < MaxFaults)
           /\ faults' = IF ok THEN faults ELSE faults + 1
           /\ last' = [NoStep EXCEPT !.act = "GuardDestroy", !.k = k,
                         !.submits = n, !.raised = unwinding]
    /\ UNCHANGED aside
    /\ UNCHANGED <<depth, mNextEventId, mEvents, cq, mDispatched,
                   mDispatchedMutex, nextToken, executed, stop, unwinding,
                   drain, now, run, failed>>

\* the guards of the scope the exception is leaving
ScopeHasGuard ==
    guardStack # << >> /\ guardStack[Len(guardStack)].scope = pc

\* an EventLoopException leaves the user code that did not catch it: main
\* catches it; out of a continuation or a dispatched callback it leaves run
\* (the scoped_lock of executeDispatched is released on the way)
Propagate ==
    /\ pc \in UserPcs
    /\ unwinding
    /\ ~ScopeHasGuard
    /\ unwinding' = FALSE
    /\ pc' = "main"
    /\ mDispatchedMutex' = IF pc = "deferred" THEN NoOwner
                                             ELSE mDispatchedMutex
    /\ last' = NoStep
    /\ UNCHANGED aside
    /\ UNCHANGED <<depth, faults, mNextEventId, mEvents, sq, inflight, cq, guardStack,
                   mDispatched, nextToken, executed, stop, drain, now, run,
                   failed>>

\* stopSource.request_stop() in user code
RequestStop ==
    /\ InUserCode
    /\ ~stop
    /\ stop' = TRUE
    /\ run' = IF pc = "main" THEN run ELSE [run EXCEPT !.stopSet = TRUE]
    /\ last' = NoStep
    /\ UNCHANGED aside
    /\ UNCHANGED <<depth, faults, mNextEventId, mEvents, sq, inflight, cq, guardStack,
                   mDispatched, mDispatchedMutex, nextToken, executed, pc,
                   unwinding, drain, now, failed>>

(* ------------------------------- run ----------------------------------- *)
\* user code in main calls run(stopSource)
RunCall ==
    /\ pc = "main"
    /\ ~unwinding
    /\ pc' = "top"
    /\ run' = [NoRun EXCEPT !.stopAtCall = stop]
    /\ last' = NoStep
    /\ UNCHANGED aside
    /\ UNCHANGED <<depth, faults, mNextEventId, mEvents, sq, inflight, cq, guardStack,
                   mDispatched, mDispatchedMutex, nextToken, executed, stop,
                   unwinding, drain, now, failed>>

\* a loop that never tests the stop signal
LoopForever == TRUE

\* while (!stopSource.stop_requested())
LoopCondition == ~stop

\* the top of an iteration: leave the loop, or go on to wait
RunTop ==
    /\ pc = "top"
    /\ pc' = IF LoopCondition THEN "wait" ELSE "main"
    /\ last' = NoStep
    /\ UNCHANGED aside
    /\ UNCHANGED <<depth, faults, mNextEventId, mEvents, sq, inflight, cq, guardStack,
                   mDispatched, mDispatchedMutex, nextToken, executed, stop,
                   unwinding, drain, now, run, failed>>

\* executeDispatched begins: the scoped_lock is taken and the range-for
\* fixes its end; due remembers the callbacks enqueued so far
BeginDrain ==
    /\ pc' = "drain"
    /\ mDispatchedMutex' = Reactor
    /\ drain' = [i |-> 1, end |-> Len(mDispatched), due |-> nextToken - 1]

\* the negative codes io_uring_wait_cqe_timeout returns
WaitCodes == {-ETIME, -EINTR}

\* a run that takes no return of the wait for a timeout
TimedOutNever(result) == FALSE

\* run: result == -ETIME
TimedOut(result) == result = -ETIME

\* io_uring_wait_cqe_timeout returns -ETIME
RunWaitTimeout ==
    /\ pc = "wait"
    /\ cq = << >>
    /\ TimedOut(-ETIME)
    /\ BeginDrain
    /\ last' = [NoStep EXCEPT !.act = "WaitTimeout", !.res = -ETIME]
    /\ UNCHANGED aside
    /\ UNCHANGED <<depth, faults, mNextEventId, mEvents, sq, inflight, cq, guardStack,
                   mDispatched, nextToken, executed, stop, unwinding, now,
                   run, failed>>

\* io_uring_wait_cqe_timeout returns another negative code: throwIfFailed
RunWaitFail ==
    /\ pc = "wait"
    /\ faults < MaxFaults
    /\ faults' = faults + 1
    /\ pc' = "main"
    /\ \E result \in WaitCodes :
        /\ result = -ETIME => cq = << >>
        /\ ~TimedOut(result)
        /\ last' = [NoStep EXCEPT !.act = "WaitFail", !.res = result]
    /\ UNCHANGED aside
    /\ UNCHANGED <<depth, mNextEventId, mEvents, sq, inflight, cq, guardStack,
                   mDispatched, mDispatchedMutex, nextToken, executed, stop,
                   unwinding, drain, now, run, failed>>

\* a handle that takes every completion of the timer for its deadline
DueAlways(ev) == TRUE

\* TimerEvent::handle: elapsed >= duration
Due(ev) == (now - ev.startTime) * TickNs >= ev.duration

\* tryExtractError: no error for a result that is not negative, else the
\* text strerror gives for the negated result
tryExtractError(result) ==
    IF result >= 0 THEN << >> ELSE <<[strerror |-> -result]>>

\* EventContext::resultAsSize
resultAsSize(result) == IF result > 0 THEN result ELSE 0

\* handle reaches a call of the continuation
Invokes(ev) == ev.cb /\ (ev.kind # "Timer" \/ Due(ev))

\* a handle that submits again whatever the result
HandleAgainAnyResult(kind, ret, res) == ret

\* a timer handle that submits again only on a positive result, as the
\* other repeatable handles do
HandleAgainOnPositive(kind, ret, res) ==
    kind \in {"Timer", "Accept", "Receive", "ReadFile"} /\ ret /\ res > 0

\* handle's decision, after the continuation returned ret, to submit again
\* and return true
HandleAgain(kind, ret, res) ==
    CASE kind = "Timer" -> ret
      [] kind \in {"Accept", "Receive", "ReadFile"} -> ret /\ res > 0
      [] OTHER -> FALSE

\* a read-file whose handle submits again without advancing the offset
RestartedInPlace(ev, res) == ev

\* the record handle submits again: the timer restarts its clock, the
\* read-file advances its offset by the result
Restarted(ev, res) ==
    CASE ev.kind = "Timer" -> [ev EXCEPT !.startTime = now]
      [] ev.kind = "ReadFile" -> [ev EXCEPT !.offset = @ + res]
      [] ev.kind = "Accept" ->
            [ev EXCEPT !.clientAddress = ClearedAddress(@)]
      [] OTHER -> ev

\* a run that never removes a record
AfterHandleKept(events, id, handled) == events

\* run after handle returned: if (!handled) removeEvent(eventId)
AfterHandle(events, id, handled) ==
    IF handled THEN events ELSE removeEvent(events, id)

\* the rest of the iteration once handle decided whether to submit again:
\* the private overload, removeEvent, io_uring_cqe_seen, executeDispatched;
\* an exception of the overload leaves handle and run
Finish(id, again, ev, ok, step) ==
    LET r == Overload(ev, id, 0, ok) IN
    /\ ((again /\ r.submits > 0) \/ ok)
    /\ (ok \/ faults < MaxFaults)
    /\ faults' = IF ok THEN faults ELSE faults + 1
    /\ IF again /\ r.raised
       THEN /\ mEvents' = [mEvents EXCEPT ![id] = r.ev]
            /\ sq' = r.sq
            /\ inflight' = r.inflight
            /\ pc' = "main"
            /\ last' = [step EXCEPT !.raised = TRUE, !.retained = TRUE,
                          !.rearm = r.rearm, !.submits = r.submits]
            /\ cq' = [cq EXCEPT ![1].delivered = TRUE]
            /\ UNCHANGED <<mDispatchedMutex, drain, storages>>
       ELSE /\ mEvents' = AfterHandle(IF again
                                      THEN [mEvents EXCEPT ![id] = r.ev]
                                      ELSE mEvents, id, again)
            /\ sq' = IF again THEN r.sq ELSE sq
            /\ inflight' = IF again THEN r.inflight ELSE inflight
            /\ cq' = Tail(cq)
            /\ storages' = IF again THEN storages
                           ELSE decreaseUse(storages, ev.buffer.mUnderlying)
            /\ BeginDrain
            /\ last' = [step EXCEPT !.retained = (id \in DOMAIN mEvents'),
                          !.rearm = IF again THEN r.rearm ELSE "none",
                          !.submits = IF again THEN r.submits ELSE 0]

\* a completion whose user_data names no record: mEvents[eventId] inserts a
\* null pointer and event->handle dereferences it
HandleUnknown ==
    /\ pc = "wait"
    /\ cq # << >>
    /\ Head(cq).id \notin DOMAIN mEvents
    /\ mEvents' = createEvent(mEvents, Head(cq).id, NullEvent)
    /\ pc' = "crashed"
    /\ last' = NoStep
    /\ run' = [run EXCEPT !.handledAfterStop = run.stopSet]
    /\ UNCHANGED aside
    /\ UNCHANGED <<depth, faults, mNextEventId, sq, inflight, cq, guardStack, mDispatched,
                   mDispatchedMutex, nextToken, executed, stop, unwinding,
                   drain, now, failed>>

\* a completion whose handle calls no continuation: an empty continuation
\* (handle returns false), or a timer completed before its deadline (handle
\* submits it again)
HandleDirect(ok) ==
    /\ pc = "wait"
    /\ cq # << >>
    /\ Head(cq).id \in DOMAIN mEvents
    /\ LET id == Head(cq).id
           ev == mEvents[id]
           early == ev.kind = "Timer" /\ ~Due(ev)
       IN  /\ ~Invokes(ev)
           /\ Finish(id, early, ev, ok,
                     [NoStep EXCEPT !.act = "Handle", !.id = id,
                        !.kind = ev.kind,
                        !.res = Head(cq).res, !.early = early,
                        !.redelivered = Head(cq).delivered])
    /\ run' = [run EXCEPT !.handledAfterStop = run.stopSet]
    /\ UNCHANGED <<lineVars, views>>
    /\ UNCHANGED <<depth, mNextEventId, guardStack, mDispatched, nextToken,
                   executed, stop, unwinding, now, failed>>

\* a completion whose handle calls the continuation
HandleInvoke ==
    /\ pc = "wait"
    /\ cq # << >>
    /\ Head(cq).id \in DOMAIN mEvents
    /\ Invokes(mEvents[Head(cq).id])
    /\ mEvents[Head(cq).id].got + resultAsSize(Head(cq).res) <= MaxDelivered
    /\ pc' = "callback"
    /\ run' = [run EXCEPT !.handledAfterStop = run.stopSet]
    /\ last' = [NoStep EXCEPT !.act = "Invoke", !.id = Head(cq).id,
                  !.kind = mEvents[Head(cq).id].kind, !.res = Head(cq).res,
                  !.invoked = TRUE, !.redelivered = Head(cq).delivered,
                  !.size = resultAsSize(Head(cq).res),
                  !.offset = mEvents[Head(cq).id].offset,
                  !.error = tryExtractError(Head(cq).res),
                  !.serverAddress = mEvents[Head(cq).id].serverAddress,
                  !.readAt = Head(cq).offset]
    /\ cq' = [cq EXCEPT ![1].delivered = TRUE]
    /\ mEvents' = IF mEvents[Head(cq).id].kind = "ReadFile"
                  THEN [mEvents EXCEPT ![Head(cq).id].got =
                                           @ + resultAsSize(Head(cq).res)]
                  ELSE mEvents
    /\ UNCHANGED aside
    /\ UNCHANGED <<depth, faults, mNextEventId, sq, inflight, guardStack,
                   mDispatched, mDispatchedMutex, nextToken, executed, stop,
                   unwinding, drain, now, failed>>

\* the continuation returns ret (a void continuation returns nothing, and its
\* handle returns false)
CallbackReturn(ret, ok) ==
    /\ pc = "callback"
    /\ ~unwinding
    /\ ~ScopeHasGuard
    /\ LET id == Head(cq).id
           ev == mEvents[id]
           again == HandleAgain(ev.kind, ret, Head(cq).res)
       IN  /\ ret => ev.kind \in Repeatable
           /\ Finish(id, again, IF again THEN Restarted(ev, Head(cq).res) ELSE ev, ok,
                     [NoStep EXCEPT !.act = "Handle", !.id = id,
                        !.kind = ev.kind,
                        !.res = Head(cq).res, !.invoked = TRUE,
                        !.ret = ret])
    /\ UNCHANGED <<lineVars, views>>
    /\ UNCHANGED <<depth, mNextEventId, guardStack, mDispatched, nextToken,
                   executed, stop, unwinding, now, run, failed>>

(* ------------------------- dispatched callbacks ------------------------- *)
\* mDispatched.push_back(callback)
Pushed(queue, token) == Append(queue, token)

\* dispatch called by another thread: lock, push_back, unlock
ThreadDispatch(t) ==
    /\ pc \notin Dead
    /\ mDispatchedMutex = NoOwner
    /\ nextToken <= MaxDispatch
    /\ mDispatched' = Pushed(mDispatched, nextToken)
    /\ nextToken' = nextToken + 1
    /\ last' = NoStep
    /\ UNCHANGED aside
    /\ UNCHANGED <<depth, faults, mNextEventId, mEvents, sq, inflight, cq, guardStack,
                   mDispatchedMutex, executed, stop, pc, unwinding, drain,
                   now, run, failed>>

\* what locking mDispatchedMutex again on the thread that owns it can do
Relock == {"deadlock", "proceed"}

\* dispatch called by user code on the reactor thread; inside a dispatched
\* callback the thread already owns the mutex (undefined behaviour: the call
\* never returns, or the lock is a no-op and push_back runs under the loop)
Dispatch(outcome) ==
    /\ InUserCode
    /\ nextToken <= MaxDispatch
    /\ IF mDispatchedMutex = Reactor /\ outcome = "deadlock"
       THEN /\ pc' = "deadlocked"
            /\ UNCHANGED <<mDispatched, nextToken>>
       ELSE /\ mDispatched' = Pushed(mDispatched, nextToken)
            /\ nextToken' = nextToken + 1
            /\ pc' = pc
    /\ outcome = "deadlock" => mDispatchedMutex = Reactor
    /\ last' = NoStep
    /\ UNCHANGED aside
    /\ UNCHANGED <<depth, faults, mNextEventId, mEvents, sq, inflight, cq, guardStack,
                   mDispatchedMutex, executed, stop, unwinding, drain, now,
                   run, failed>>

\* stopSource.request_stop() on another thread
ThreadRequestStop(t) ==
    /\ pc \notin Dead
    /\ ~stop
    /\ stop' = TRUE
    /\ last' = NoStep
    /\ UNCHANGED aside
    /\ UNCHANGED <<depth, faults, mNextEventId, mEvents, sq, inflight, cq, guardStack,
                   mDispatched, mDispatchedMutex, nextToken, executed, pc,
                   unwinding, drain, now, run, failed>>

\* executeDispatched: the loop calls the next callback
DrainInvoke ==
    /\ pc = "drain"
    /\ drain.i <= drain.end
    /\ pc' = "deferred"
    /\ executed' = [executed EXCEPT ![mDispatched[drain.i]] = @ + 1]
    /\ last' = NoStep
    /\ UNCHANGED aside
    /\ UNCHANGED <<depth, faults, mNextEventId, mEvents, sq, inflight, cq, guardStack,
                   mDispatched, mDispatchedMutex, nextToken, stop, unwinding,
                   drain, now, run, failed>>

\* the dispatched callback returns
DeferredReturn ==
    /\ pc = "deferred"
    /\ ~unwinding
    /\ ~ScopeHasGuard
    /\ pc' = "drain"
    /\ drain' = [drain EXCEPT !.i = @ + 1]
    /\ last' = NoStep
    /\ UNCHANGED aside
    /\ UNCHANGED <<depth, faults, mNextEventId, mEvents, sq, inflight, cq, guardStack,
                   mDispatched, mDispatchedMutex, nextToken, executed, stop,
                   unwinding, now, run, failed>>

\* executeDispatched: the loop is over; mDispatched.clear(), unlock
DrainClear ==
    /\ pc = "drain"
    /\ drain.i > drain.end
    /\ mDispatched' = << >>
    /\ mDispatchedMutex' = NoOwner
    /\ pc' = "top"
    /\ last' = [NoStep EXCEPT !.act = "DrainClear"]
    /\ UNCHANGED aside
    /\ UNCHANGED <<depth, faults, mNextEventId, mEvents, sq, inflight, cq, guardStack,
                   nextToken, executed, stop, unwinding, drain, now, run,
                   failed>>

(* ------------------------------ the kernel ------------------------------ *)
\* a completion posted: the timeouts waiting for one completion are due
Counted(e) == IF e.opcode = "Timer" THEN [e EXCEPT !.fire = TRUE] ELSE e

CountedBag(b) ==
    LET from == BagToSet(b)
        to == {Counted(e) : e \in from}
    IN  [x \in to |->
            CopiesIn(x, b)
            + (IF x.fire /\ [x EXCEPT !.fire = FALSE] \in from
               THEN CopiesIn([x EXCEPT !.fire = FALSE], b) ELSE 0)]

\* the results the kernel can post for an entry
CanComplete(e, res) ==
    CASE e.opcode = "Timer" ->
            \/ res = -1 /\ now * TickNs >= e.deadline
            \/ res = 0 /\ e.fire
      [] e.opcode = "ReadFile" ->
            \/ res = -1
            \/ res = 0 /\ e.offset >= FileSize
            \/ res > 0 /\ e.offset + res <= FileSize
      [] OTHER -> res \in Results

\* the lengths the kernel can report for the address of an accepted peer:
\* an IPv4 peer has a sockaddr_in; a Unix-domain peer is unnamed (the family
\* alone) or bound to a path (up to a whole sockaddr_un)
PeerLengths(events, e, res) ==
    IF e.opcode = "Accept" /\ res > 0 /\ e.id \in DOMAIN events
    THEN IF events[e.id].server = Inet THEN {SizeofSockaddrIn}
         ELSE {SizeofSaFamily, SizeofSockaddrUn}
    ELSE {0}

\* an accept that succeeded: the kernel copies the peer's address into the
\* staging field and stores the address's length through the length pointer
AcceptedInto(events, e, res, len) ==
    IF e.opcode = "Accept" /\ res > 0 /\ e.id \in DOMAIN events
    THEN [events EXCEPT ![e.id].clientAddress.zero = FALSE,
                        ![e.id].clientAddressLength = len]
    ELSE events

\* the kernel completes an entry it holds
KernelComplete(e, res) ==
    /\ pc \notin Dead
    /\ BagIn(e, inflight)
    /\ CanComplete(e, res)
    /\ \E len \in PeerLengths(mEvents, e, res) :
            mEvents' = AcceptedInto(mEvents, e, res, len)
    /\ inflight' = CountedBag(inflight (-) SetToBag({e}))
    /\ cq' = Append(cq, [id |-> e.id, res |-> res, delivered |-> FALSE,
                          offset |-> e.offset])
    /\ last' = NoStep
    /\ UNCHANGED aside
    /\ UNCHANGED <<depth, faults, mNextEventId, sq, guardStack, mDispatched,
                   mDispatchedMutex, nextToken, executed, stop, pc,
                   unwinding, drain, now, run, failed>>

\* time passes
Tick ==
    /\ pc \notin Dead
    /\ now < MaxNow
    /\ now' = now + 1
    /\ last' = NoStep
    /\ UNCHANGED aside
    /\ UNCHANGED <<depth, faults, mNextEventId, mEvents, sq, inflight, cq, guardStack,
                   mDispatched, mDispatchedMutex, nextToken, executed, stop,
                   pc, unwinding, drain, run, failed>>

Durations == {k * TickNs : k \in 0 .. MaxDuration}

\* the offsets a read-file is started at
Offsets == 0 .. FileSize

\* the server addresses a connect is given
Addresses == {0, 1}

(* ------------------------- operations on buffers ----------------------- *)
\* what an operation on Buffer objects leaves alone in the loop
loopRest == <<depth, faults, mNextEventId, mEvents, sq, inflight, cq,
              guardStack, mDispatched, mDispatchedMutex, nextToken, executed,
              stop, unwinding, drain, now, run, failed>>

BufferStep(act, v, src) ==
    [NoStep EXCEPT !.act = act, !.view = v, !.from = src]

\* an operation on Buffer objects that dereferences a null mUnderlying
NullDereference(act, v, src) ==
    /\ pc' = "crashed"
    /\ last' = BufferStep(act, v, src)
    /\ UNCHANGED <<views, storages>>

\* Buffer v { size }, and Buffer::fromString of a string of that length
Allocate(v, size) ==
    /\ InUserCode
    /\ v \in FreeViews
    /\ FreeStorages # {}
    /\ LET s == CHOOSE x \in FreeStorages : \A y \in FreeStorages : x <= y
       IN  /\ storages' = [storages EXCEPT
                             ![s] = [state |-> "live", mSize |-> size,
                                     mUseCount |-> 1, mData |-> Zeros(size)]]
           /\ views' = [views EXCEPT
                          ![v] = [live |-> TRUE, mUnderlying |-> s,
                                  mOffset |-> 0, mSize |-> size]]
    /\ last' = BufferStep("Allocate", v, 0)
    /\ UNCHANGED <<pc, loopRest, lineVars>>

\* Buffer v { src }: the copy constructor, which does not test for null
CopyConstruct(v, src) ==
    /\ InUserCode
    /\ v \in FreeViews
    /\ src \in LiveViews
    /\ IF views[src].mUnderlying = 0
       THEN NullDereference("CopyConstruct", v, src)
       ELSE /\ views' = [views EXCEPT ![v] = views[src]]
            /\ storages' = increaseUse(storages, views[src].mUnderlying)
            /\ last' = BufferStep("CopyConstruct", v, src)
            /\ UNCHANGED pc
    /\ UNCHANGED <<loopRest, lineVars>>

\* dst = src
CopyAssign(dst, src) ==
    /\ InUserCode
    /\ dst \in LiveViews
    /\ src \in LiveViews
    /\ IF dst = src
       THEN UNCHANGED <<views, storages>>
       ELSE LET dropped == decreaseUse(storages, views[dst].mUnderlying) IN
            /\ views' = [views EXCEPT ![dst] = views[src]]
            /\ storages' = IF views[src].mUnderlying # 0
                           THEN increaseUse(dropped, views[src].mUnderlying)
                           ELSE dropped
    /\ last' = BufferStep("CopyAssign", dst, src)
    /\ UNCHANGED <<pc, loopRest, lineVars>>

\* Buffer v { std::move(src) }
MoveConstruct(v, src) ==
    /\ InUserCode
    /\ v \in FreeViews
    /\ src \in LiveViews
    /\ views' = [views EXCEPT ![v] = views[src], ![src] = NullView]
    /\ last' = BufferStep("MoveConstruct", v, src)
    /\ UNCHANGED <<storages, pc, loopRest, lineVars>>

\* dst = std::move(src)
MoveAssign(dst, src) ==
    /\ InUserCode
    /\ dst \in LiveViews
    /\ src \in LiveViews
    /\ IF dst = src
       THEN UNCHANGED <<views, storages>>
       ELSE /\ storages' = decreaseUse(storages, views[dst].mUnderlying)
            /\ views' = [views EXCEPT ![dst] = views[src],
                                      ![src] = NullView]
    /\ last' = BufferStep("MoveAssign", dst, src)
    /\ UNCHANGED <<pc, loopRest, lineVars>>

\* Buffer v = src.slice(offset, size); a null src returns *this through the
\* copy constructor
SliceView(v, src, offset, size) ==
    /\ InUserCode
    /\ v \in FreeViews
    /\ src \in LiveViews
    /\ IF views[src].mUnderlying = 0
       THEN NullDereference("Slice", v, src)
       ELSE LET r == Slice(storages, views[src], offset, size) IN
            /\ views' = IF r.threw THEN views
                        ELSE [views EXCEPT ![v] = r.view]
            /\ storages' = IF r.threw THEN storages
                           ELSE increaseUse(storages, views[src].mUnderlying)
            /\ last' = [BufferStep("Slice", v, src) EXCEPT
                          !.threw = r.threw, !.offset = offset,
                          !.size = size]
            /\ UNCHANGED pc
    /\ UNCHANGED <<loopRest, lineVars>>

\* Buffer::~Buffer
Destroy(v) ==
    /\ InUserCode
    /\ v \in LiveViews
    /\ storages' = decreaseUse(storages, views[v].mUnderlying)
    /\ views' = [views EXCEPT ![v] = NoView]
    /\ last' = BufferStep("Destroy", v, 0)
    /\ UNCHANGED <<pc, loopRest, lineVars>>

\* v.data()[i] = byte, for a byte of the window that lies in the storage
WriteByte(v, i, byte) ==
    /\ InUserCode
    /\ v \in LiveViews
    /\ views[v].mUnderlying # 0
    /\ i < views[v].mSize
    /\ views[v].mOffset + i < storages[views[v].mUnderlying].mSize
    /\ storages' = [storages EXCEPT
                      ![views[v].mUnderlying].mData[views[v].mOffset + i + 1] =
                            byte]
    /\ last' = BufferStep("Write", v, 0)
    /\ UNCHANGED <<views, pc, loopRest, lineVars>>

\* the bytes of the storage of view v that are not zero and lie outside the
\* window of v
NonZeroOutside(v) ==
    IF views[v].mUnderlying = 0 THEN 0
    ELSE LET data == storages[views[v].mUnderlying].mData IN
         Cardinality({i \in 1 .. Len(data) :
                        /\ data[i] # 0
                        /\ (i <= views[v].mOffset
                            \/ i > views[v].mOffset + views[v].mSize)})

\* v.clear(); the step remembers how many bytes outside the window were not
\* zero before
ClearView(v) ==
    /\ InUserCode
    /\ v \in LiveViews
    /\ storages' = ClearedStorage(storages, views[v])
    /\ last' = [BufferStep("Clear", v, 0) EXCEPT !.size = NonZeroOutside(v)]
    /\ UNCHANGED <<views, pc, loopRest, lineVars>>

\* the operations on Buffer objects
BufferOps ==
    \/ \E v \in 1 .. MaxViews, size \in 0 .. MaxSize : Allocate(v, size)
    \/ \E v, src \in 1 .. MaxViews : CopyConstruct(v, src)
    \/ \E dst, src \in 1 .. MaxViews : CopyAssign(dst, src)
    \/ \E v, src \in 1 .. MaxViews : MoveConstruct(v, src)
    \/ \E dst, src \in 1 .. MaxViews : MoveAssign(dst, src)
    \/ \E v, src \in 1 .. MaxViews, offset, size \in 0 .. Word - 1 :
            SliceView(v, src, offset, size)
    \/ \E v \in 1 .. MaxViews : Destroy(v)

(* ------------------------------ read_line ------------------------------- *)
NewLine == "\n"
Letter == "a"
\* the byte Buffer::clear leaves everywhere in the storage
Nul == "0"

\* the byte streams standard input can carry
Streams == UNION {[1 .. n -> {Letter, NewLine}] : n \in 0 .. MaxStream}

\* BufferData::clear over the bytes of a completion
Cleared(bytes) == [i \in DOMAIN bytes |-> Nul]

\* the continuation readLine wraps around the caller's: every byte goes to
\* the accumulator; at a newline the caller's continuation gets the
\* accumulator, and the accumulator is emptied if it returned continue; st
\* holds line (the accumulator), out (the lines handed over), patience (the
\* calls the caller's continuation still answers with continue) and stopped
RECURSIVE ScanBytes(_, _)
ScanBytes(st, text) ==
    IF text = << >> THEN st
    ELSE LET current == Head(text)
             line == Append(st.line, current)
         IN  IF current = NewLine
             THEN IF st.patience = 0
                  THEN [st EXCEPT !.line = line, !.out = Append(@, line),
                                  !.stopped = TRUE]
                  ELSE ScanBytes([st EXCEPT !.line = << >>,
                                            !.out = Append(@, line),
                                            !.patience = @ - 1],
                                 Tail(text))
             ELSE ScanBytes([st EXCEPT !.line = line], Tail(text))

\* user code calls readLine(buffer, callback): the first read is submitted
ReadLineCall ==
    /\ readLine.reader = "none"
    /\ readLine' = [readLine EXCEPT !.reader = "armed"]
    /\ UNCHANGED <<stdin, lines, loopVars, bufferVars>>

\* the kernel completes the read with the next n bytes of the stream, with
\* none at its end, or with an error
ReadLineComplete(n, fails) ==
    /\ readLine.reader = "armed"
    /\ n <= Len(stdin.stream) - stdin.consumed
    /\ (n = 0) = (fails \/ stdin.consumed = Len(stdin.stream))
    /\ stdin' = [stdin EXCEPT !.consumed = @ + n]
    /\ readLine' = [readLine EXCEPT
                      !.reader = "completed",
                      !.chunk = SubSeq(stdin.stream, stdin.consumed + 1,
                                       stdin.consumed + n),
                      !.result = IF fails THEN -1 ELSE n]
    /\ UNCHANGED <<lines, loopVars, bufferVars>>

\* run handles the completion: ReadFileEvent::handle calls the wrapping
\* continuation with resultAsSize bytes of the buffer and, if it returned
\* true and the result is positive, clears the buffer and submits the next
\* read; ok is the outcome of that submission, whose failure leaves run
\* before the completion is marked seen
ReadLineHandle(ok) ==
    /\ readLine.reader = "completed"
    /\ LET st == ScanBytes([line |-> readLine.line, out |-> << >>,
                            patience |-> readLine.patience,
                            stopped |-> FALSE],
                           SubSeq(readLine.chunk, 1,
                                  resultAsSize(readLine.result)))
           again == ~st.stopped /\ readLine.result > 0
       IN  /\ ok \/ (again /\ readLine.refusals < MaxFaults)
           /\ lines' = lines \o st.out
           /\ readLine' =
                [readLine EXCEPT
                   !.line = st.line,
                   !.patience = st.patience,
                   !.stopped = st.stopped,
                   !.handled = stdin.consumed,
                   !.refusals = IF ok THEN @ ELSE @ + 1,
                   !.chunk = IF again THEN Cleared(@) ELSE @,
                   !.reader = CASE ~again -> "ended"
                                [] again /\ ok -> "armed"
                                [] OTHER -> "raised"]
    /\ UNCHANGED <<stdin, loopVars, bufferVars>>

\* main catches the exception and calls run again: the completion that was
\* not marked seen is the next one run obtains
ReadLineRerun ==
    /\ readLine.reader = "raised"
    /\ readLine' = [readLine EXCEPT !.reader = "completed"]
    /\ UNCHANGED <<stdin, lines, loopVars, bufferVars>>

(* --------------------------- specifications ----------------------------- *)
\* user code calls one of the operations ops, with a continuation or an
\* empty one (cbs), io_uring_submit succeeding or not (oks), catching the
\* exception or not (catches)
Calls(ops, cbs, oks, catches) ==
    \E op \in ops, g \in 0 .. MaxGuards, cb \in cbs,
       arg \in Durations \cup Offsets \cup Addresses \cup SocketTypes, ok \in oks,
       caught \in catches :
        /\ CASE op = "Timer" -> arg \in Durations
             [] op = "ReadFile" -> arg \in Offsets
             [] op = "Connect" -> arg \in Addresses
             [] op = "Accept" -> arg \in SocketTypes
             [] OTHER -> arg = 0
        /\ Call(op, g, cb, arg, ok, caught)

\* user code calls one of the operations ops and moves one of its Buffer
\* objects into it
CallsWithBuffer(ops, oks) ==
    \E op \in ops, b \in 1 .. MaxViews, ok \in oks :
        CallWith(op, 0, TRUE, 0, ok, TRUE, b)

\* the loop of run
Loop ==
    \/ RunCall
    \/ RunTop
    \/ RunWaitTimeout
    \/ DrainClear

\* the calls of the dispatched callbacks
Draining ==
    \/ DrainInvoke
    \/ DeferredReturn

Guards ==
    \/ GuardCreate
    \/ \E ok \in BOOLEAN : GuardDestroy(ok)

Kernel ==
    \E e \in BagToSet(inflight), res \in Results : KernelComplete(e, res)

\* the kernel completing an entry while io_uring_wait_cqe_timeout waits on
\* an empty completion queue: completions are observed nowhere but there
KernelAtWait == pc = "wait" /\ cq = << >> /\ Kernel

\* the registry and the ring: a one-shot and a repeatable operation, with
\* and without guards, every call into the ring able to fail
Next ==
    \/ Calls({"Close", "Receive"}, {TRUE}, BOOLEAN, BOOLEAN)
    \/ Guards
    \/ Propagate
    \/ Loop
    \/ RunWaitFail
    \/ HandleUnknown
    \/ HandleInvoke
    \/ \E ret \in BOOLEAN, ok \in BOOLEAN : CallbackReturn(ret, ok)
    \/ KernelAtWait

Spec == Init /\ [][Next]_vars

\* only calls and guards, in main: every public operation
NextCalls ==
    \/ Calls(Ops, BOOLEAN, BOOLEAN, BOOLEAN)
    \/ Guards
    \/ Propagate

SpecCalls == Init /\ [][NextCalls]_vars

\* the repeatable operations under run, with the clock
NextRepeat ==
    \/ Calls({"Timer", "Accept", "Receive", "ReadFile", "ReadLine"},
             BOOLEAN, BOOLEAN, {TRUE})
    \/ Loop
    \/ HandleUnknown
    \/ \E ok \in BOOLEAN : HandleDirect(ok)
    \/ HandleInvoke
    \/ \E ret \in BOOLEAN, ok \in BOOLEAN : CallbackReturn(ret, ok)
    \/ KernelAtWait
    \/ Tick

SpecRepeat == Init /\ [][NextRepeat]_vars

\* timers alone under run, with the clock
NextTimer ==
    \/ Calls({"Timer"}, {TRUE}, BOOLEAN, {TRUE})
    \/ Loop
    \/ HandleUnknown
    \/ \E ok \in BOOLEAN : HandleDirect(ok)
    \/ HandleInvoke
    \/ \E ret \in BOOLEAN, ok \in BOOLEAN : CallbackReturn(ret, ok)
    \/ KernelAtWait
    \/ Tick

SpecTimer == Init /\ [][NextTimer]_vars

\* read-file alone under run
NextRead ==
    \/ Calls({"ReadFile"}, {TRUE}, BOOLEAN, {TRUE})
    \/ Loop
    \/ HandleUnknown
    \/ HandleInvoke
    \/ \E ret \in BOOLEAN, ok \in BOOLEAN : CallbackReturn(ret, ok)
    \/ KernelAtWait

SpecRead == Init /\ [][NextRead]_vars

\* read_line over every stream, every division of it into reads and every
\* number of lines the caller's continuation accepts
InitLine ==
    /\ InitLoop
    /\ stdin \in [stream : Streams, consumed : {0}]
    /\ readLine \in {[NoReadLine EXCEPT !.patience = k] :
                        k \in 0 .. MaxStream}
    /\ lines = << >>
    /\ InitBuffers

NextLine ==
    \/ ReadLineCall
    \/ \E n \in 0 .. MaxStream, fails \in BOOLEAN : ReadLineComplete(n, fails)
    \/ \E ok \in BOOLEAN : ReadLineHandle(ok)
    \/ ReadLineRerun

SpecLine == InitLine /\ [][NextLine]_vars

\* user code working on Buffer objects
NextBuffer == BufferOps

SpecBuffer == Init /\ [][NextBuffer]_vars

\* views and slices of a storage that are written to and cleared
NextClear ==
    \/ \E v \in 1 .. MaxViews : Allocate(v, MaxSize)
    \/ \E v, src \in 1 .. MaxViews : CopyConstruct(v, src)
    \/ \E v, src \in 1 .. MaxViews : MoveConstruct(v, src)
    \/ \E v, src \in 1 .. MaxViews, offset \in 0 .. MaxSize - 1,
          size \in 0 .. MaxSize :
            offset + size <= MaxSize /\ SliceView(v, src, offset, size)
    \/ \E v \in 1 .. MaxViews, i \in 0 .. MaxSize - 1 : WriteByte(v, i, 1)
    \/ \E v \in 1 .. MaxViews : ClearView(v)
    \/ \E v \in 1 .. MaxViews : Destroy(v)

SpecClear == Init /\ [][NextClear]_vars

\* receive and send on buffers that user code allocates, copies, slices,
\* moves into the call and destroys, under run
NextHold ==
    \/ \E v \in 1 .. MaxViews : Allocate(v, MaxSize)
    \/ \E v, src \in 1 .. MaxViews : CopyConstruct(v, src)
    \/ \E v, src \in 1 .. MaxViews : SliceView(v, src, 0, 1)
    \/ \E v \in 1 .. MaxViews : Destroy(v)
    \/ CallsWithBuffer({"Receive", "Send"}, BOOLEAN)
    \/ Loop
    \/ HandleInvoke
    \/ \E ret \in BOOLEAN, ok \in BOOLEAN : CallbackReturn(ret, ok)
    \/ KernelAtWait

SpecHold == Init /\ [][NextHold]_vars

\* connect alone under run
NextConnect ==
    \/ Calls({"Connect"}, {TRUE}, BOOLEAN, BOOLEAN)
    \/ Propagate
    \/ Loop
    \/ HandleUnknown
    \/ HandleInvoke
    \/ \E ret \in BOOLEAN, ok \in BOOLEAN : CallbackReturn(ret, ok)
    \/ KernelAtWait

SpecConnect == Init /\ [][NextConnect]_vars

\* accept alone under run
NextAccept ==
    \/ Calls({"Accept"}, {TRUE}, BOOLEAN, {TRUE})
    \/ Loop
    \/ HandleUnknown
    \/ HandleInvoke
    \/ \E ret \in BOOLEAN, ok \in BOOLEAN : CallbackReturn(ret, ok)
    \/ KernelAtWait

SpecAccept == Init /\ [][NextAccept]_vars

\* dispatch, from the reactor thread and from another one, under run
NextDispatch ==
    \/ \E outcome \in Relock : Dispatch(outcome)
    \/ \E t \in Threads : ThreadDispatch(t)
    \/ Loop
    \/ Draining

SpecDispatch == Init /\ [][NextDispatch]_vars

\* request_stop from main, from a continuation, from a dispatched callback
\* and from another thread, under run
NextStop ==
    \/ RequestStop
    \/ \E t \in Threads : ThreadRequestStop(t)
    \/ \E t \in Threads : ThreadDispatch(t)
    \/ Calls({"Receive"}, {TRUE}, {TRUE}, {TRUE})
    \/ Loop
    \/ Draining
    \/ HandleInvoke
    \/ \E ret \in BOOLEAN : CallbackReturn(ret, TRUE)
    \/ Kernel

SpecStop == Init /\ [][NextStop]_vars

\* run with dispatch and request_stop from everywhere; the reactor thread
\* keeps running, every bounded wait returns and every dispatched callback
\* that is not blocked returns
NextLive ==
    \/ \E outcome \in Relock : Dispatch(outcome)
    \/ \E t \in Threads : ThreadDispatch(t)
    \/ RequestStop
    \/ \E t \in Threads : ThreadRequestStop(t)
    \/ Loop
    \/ Draining

Progress ==
    /\ WF_vars(RunTop)
    /\ WF_vars(RunWaitTimeout)
    /\ WF_vars(DrainInvoke)
    /\ WF_vars(DeferredReturn)
    /\ WF_vars(DrainClear)

SpecLive == Init /\ [][NextLive]_vars /\ Progress

\* operations of every kind called with a continuation or an empty one,
\* under run, with the clock
NextEmpty ==
    \/ Calls(Kinds \cup {"OpenFileDefault"}, BOOLEAN, BOOLEAN, {TRUE})
    \/ Loop
    \/ HandleUnknown
    \/ \E ok \in BOOLEAN : HandleDirect(ok)
    \/ HandleInvoke
    \/ \E ret \in BOOLEAN, ok \in BOOLEAN : CallbackReturn(ret, ok)
    \/ KernelAtWait
    \/ Tick

SpecEmpty == Init /\ [][NextEmpty]_vars

\* the durations of the timers of NextDelay: below zero, a whole second, and
\* the durations of the other specifications
Delays == {-TickNs, Den} \cup Durations

\* timers of every duration under run, with the clock
NextDelay ==
    \/ \E d \in Delays, ok \in BOOLEAN : Call("Timer", 0, TRUE, d, ok, TRUE)
    \/ Loop
    \/ HandleUnknown
    \/ \E ok \in BOOLEAN : HandleDirect(ok)
    \/ HandleInvoke
    \/ \E ret \in BOOLEAN, ok \in BOOLEAN : CallbackReturn(ret, ok)
    \/ KernelAtWait
    \/ Tick

SpecDelay == Init /\ [][NextDelay]_vars

\* timers whose continuation always returns true, with the clock: run keeps
\* running, the continuation returns, time passes while the clock has
\* room, and the kernel completes an entry it can complete while run waits
NextPeriodic ==
    \/ Calls({"Timer"}, {TRUE}, BOOLEAN, {TRUE})
    \/ Loop
    \/ HandleUnknown
    \/ \E ok \in BOOLEAN : HandleDirect(ok)
    \/ HandleInvoke
    \/ \E ok \in BOOLEAN : CallbackReturn(TRUE, ok)
    \/ KernelAtWait
    \/ Tick

\* the kernel completes an entry of identifier id while run waits
KernelAtWaitFor(id) ==
    /\ pc = "wait"
    /\ cq = << >>
    /\ \E e \in BagToSet(inflight), res \in Results :
            e.id = id /\ KernelComplete(e, res)

PeriodicProgress ==
    /\ WF_vars(RunTop)
    /\ WF_vars(DrainClear)
    /\ WF_vars(Tick)
    /\ WF_vars(HandleUnknown)
    /\ WF_vars(HandleInvoke)
    /\ WF_vars(\E ok \in BOOLEAN : HandleDirect(ok))
    /\ WF_vars(\E ok \in BOOLEAN : CallbackReturn(TRUE, ok))
    /\ \A id \in 1 .. MaxId : SF_vars(KernelAtWaitFor(id))

SpecPeriodic == Init /\ [][NextPeriodic]_vars /\ PeriodicProgress

(* ------------------------------- claims --------------------------------- *)
\* the identifiers carried by the entries queued, in flight and completed
Carried ==
    {sq[i].id : i \in DOMAIN sq}
    \cup {e.id : e \in BagToSet(inflight)}
    \cup {cq[i].id : i \in DOMAIN cq}

\* C1: every entry queued in the ring or held by the kernel, and every
\* completion run observes, carries the identifier of a record that is in
\* the registry, also after calls that failed and rolled their record back
C1_EntriesResolve == Carried \subseteq DOMAIN mEvents

\* C3: a call that raises (no free entry, or io_uring_submit fails) leaves
\* the registry as it was before the call, and the continuation passed to it
\* is never invoked afterwards
C3_FailedCallRollsBack ==
    /\ [][last'.act = "Call" /\ last'.raised => mEvents' = mEvents]_vars
    /\ [](pc = "callback" => Head(cq).id \notin failed)

\* C3: a continuation runs after an earlier call failed
C3_Witness == failed # {} /\ pc = "callback"

\* C4: the destructor of a guard that counted k > 0 entries submits the ring
\* exactly once, and of one that counted none not at all, on the normal
\* path out of the scope and while an exception unwinds it
C4_DestructorSubmitsOnce ==
    last.act = "GuardDestroy" =>
        last.submits = (IF last.k > 0 THEN 1 ELSE 0)

\* C4: a guard that counted an entry is destroyed by an exception
C4_Witness == last.act = "GuardDestroy" /\ last.k > 0 /\ last.raised

\* C5 (as the code has it): an entry prepared under a guard stays queued
\* until a ring submission, by whoever makes it, hands it to the kernel; and
\* none is left queued once its guard's destructor submitted
C5_GuardedUntilSubmit ==
    /\ [][\A i \in DOMAIN sq :
            sq[i].guard # 0 =>
                \/ i \in DOMAIN sq' /\ sq'[i].id = sq[i].id
                \/ /\ last'.submits > 0
                   /\ \E e \in BagToSet(inflight') : e.id = sq[i].id]_vars
    /\ [](last.act = "GuardDestroy" /\ last.k > 0 /\ pc # "terminated"
            => sq = << >>)

\* C5: a handler's re-arm submitted the ring while a guard that counted an
\* entry is alive
C5_Witness ==
    /\ guardStack # << >>
    /\ guardStack[1].n > 0
    /\ last.act = "Handle"
    /\ last.rearm = "submitted"
    /\ \E e \in BagToSet(inflight) : e.guard # 0

\* C5 (as stated): no entry prepared under a guard that is still alive is
\* held by the kernel
C5_HeldBackUntilDestroyed == \A e \in BagToSet(inflight) : e.guard = 0

\* C6: a call of a public operation with a live guard makes no ring
\* submission and adds exactly one to the guard's count
C6_GuardedCallDefers ==
    last.act = "Call" /\ last.guarded /\ ~last.raised =>
        last.submits = 0 /\ last.counted = 1

\* C2 (as the code has it): accept, receive and read-file keep their record
\* and submit one fresh entry exactly when the continuation returned
\* continue and the result was positive; a timer exactly when it completed
\* before its deadline or its continuation returned continue, whatever the
\* result; otherwise the record is removed and nothing is submitted; a
\* re-submission that fails leaves the record and raises out of run
C2_RearmRule ==
    last.act = "Handle" /\ last.kind \in Repeatable =>
        LET again == IF last.kind = "Timer"
                     THEN last.early \/ (last.invoked /\ last.ret)
                     ELSE last.invoked /\ last.ret /\ last.res > 0
        IN  IF again
            THEN /\ last.retained
                 /\ IF last.raised
                    THEN last.rearm \in {"refused", "queued"}
                    ELSE last.rearm = "submitted" /\ last.submits = 1
            ELSE ~last.retained /\ last.rearm = "none" /\ last.submits = 0

\* C2: a timer that completed before its deadline was submitted again
\* without its continuation being called
C2_Witness ==
    /\ last.act = "Handle"
    /\ last.kind = "Timer"
    /\ last.early
    /\ ~last.invoked
    /\ last.rearm = "submitted"

\* C2 (as stated): every repeatable operation, the timer too, keeps its
\* record and submits one fresh entry exactly when the continuation returned
\* continue and the result was positive
C2_RearmIffContinueAndPositive ==
    last.act = "Handle" /\ last.kind \in Repeatable /\ ~last.raised =>
        IF last.invoked /\ last.ret /\ last.res > 0
        THEN last.retained /\ last.rearm = "submitted" /\ last.submits = 1
        ELSE ~last.retained /\ last.rearm = "none" /\ last.submits = 0

\* C7: no dispatched callback runs while the reactor thread holds the
\* queue's lock, and a dispatch made by a dispatched callback returns
C7_LockFreeDuringCallback ==
    /\ pc = "deferred" => mDispatchedMutex # Reactor
    /\ pc # "deadlocked"

\* C8: when a drain ends, every callback whose enqueue completed before the
\* drain began has been executed
C8_ExecutedByNextDrain ==
    last.act = "DrainClear" => \A t \in 1 .. drain.due : executed[t] > 0

\* C9: a callback is executed only when every callback enqueued before it
\* has been executed
C9_NoOvertaking ==
    \A t1, t2 \in 1 .. MaxDispatch :
        t1 < t2 /\ executed[t2] > 0 => executed[t1] > 0

\* C10: a call of run that finds the stop signal set returns from the top of
\* its first iteration: it does not wait, handle a completion or run a
\* dispatched callback; and once a continuation or a dispatched callback
\* has set it, the call of run invokes no further handler
C10_StopTestedAtTop ==
    /\ run.stopAtCall => pc \in {"top", "main"}
    /\ ~run.handledAfterStop

\* C10: a continuation or a dispatched callback set the stop signal, and the
\* loop is at the top of its next iteration with a completion waiting
C10_Witness == run.stopSet /\ pc = "top" /\ cq # << >>

\* C11: once the stop signal is set while run is executing, run eventually
\* returns, with no completion arriving
C11_StopLeadsToReturn == (stop /\ pc # "main") ~> (pc = "main")

C13_InvokedOncePerCompletion ==
    last.act = "Invoke" /\ last.kind \notin Repeatable => ~last.redelivered

\* the continuation of a receive is called once, with size 0, for a
\* completion whose result is not positive
C14_CalledOnceWithZero ==
    last.act = "Invoke" /\ last.kind = "Receive" /\ last.res <= 0 =>
        last.size = 0 /\ ~last.redelivered

\* a receive handled with a result that is not positive is not submitted
\* again and its record is removed
C14_NotRearmed ==
    last.act = "Handle" /\ last.kind = "Receive" /\ last.invoked
        /\ last.res <= 0 =>
            ~last.retained /\ last.rearm = "none" /\ last.submits = 0

\* once a receive was handled with a result that is not positive, the ring
\* and the kernel hold nothing more of it
C14_NothingLeft ==
    last.act = "Handle" /\ last.kind = "Receive" /\ last.invoked
        /\ last.res <= 0 =>
            /\ \A i \in DOMAIN sq : sq[i].id # last.id
            /\ \A e \in BagToSet(inflight) : e.id # last.id
            /\ \A i \in DOMAIN cq : cq[i].id # last.id

\* C14: a receive completing with zero bytes or a negative result invokes its
\* continuation exactly once, with size 0, and is not submitted again
\* whatever the continuation returns; its record is removed and no later
\* completion is delivered for it
C14_ZeroReceiveDisarms ==
    C14_CalledOnceWithZero /\ C14_NotRearmed /\ C14_NothingLeft

\* every delivery of a read-file reports the offset its bytes were read at
C15_ReportsReadOffset ==
    last.act = "Invoke" /\ last.kind = "ReadFile" /\ last.size > 0 =>
        last.offset = last.readAt

\* every completion of a read-file is delivered once
C15_DeliveredOnce ==
    last.act = "Invoke" /\ last.kind = "ReadFile" => ~last.redelivered

\* a read-file submitted again reads at its first offset plus the bytes
\* delivered so far
C15_ReadsOn ==
    last.act = "Handle" /\ last.kind = "ReadFile"
        /\ last.rearm = "submitted" =>
            \A e \in BagToSet(inflight) :
                e.id = last.id =>
                    e.offset = mEvents[last.id].first + mEvents[last.id].got

\* a read-file ends with the delivery of a result that is not positive
C15_EndsAtZero ==
    last.act = "Handle" /\ last.kind = "ReadFile" /\ last.invoked
        /\ last.res <= 0 =>
            ~last.retained /\ last.rearm = "none"

\* C15: a read-file whose continuation returns continue reads each time at
\* its first offset plus the bytes delivered so far, reports with each
\* delivery the offset its bytes were read at, delivers each completion once
\* and ends with the delivery of a zero or negative result
C15_ReadsFileInOrder ==
    C15_ReportsReadOffset /\ C15_DeliveredOnce /\ C15_ReadsOn
        /\ C15_EndsAtZero

\* the lines of a byte stream: each ends with its newline
RECURSIVE LinesOf(_, _)
LinesOf(bytes, current) ==
    IF bytes = << >> THEN << >>
    ELSE IF Head(bytes) = NewLine
         THEN <<Append(current, NewLine)>> \o LinesOf(Tail(bytes), << >>)
         ELSE LinesOf(Tail(bytes), Append(current, Head(bytes)))

\* the bytes of standard input that run has handled
Handled == SubSeq(stdin.stream, 1, readLine.handled)

\* C16: the continuation of read_line has been handed, in order, the lines
\* of the bytes handled so far, one call a newline, up to the call it
\* answered with stop; after that call nothing is read any more
C16_LineByLine ==
    /\ LET whole == LinesOf(Handled, << >>) IN
       IF readLine.stopped
       THEN /\ lines # << >>
            /\ lines = SubSeq(whole, 1, Len(lines))
       ELSE lines = whole
    /\ readLine.stopped => readLine.reader = "ended"

\* the live Buffer objects that refer to storage s, in user code and in
\* the records
Referring(s) ==
    Cardinality({v \in 1 .. MaxViews :
                    views[v].live /\ views[v].mUnderlying = s})
    + Cardinality({id \in DOMAIN mEvents :
                    mEvents[id].buffer.mUnderlying = s})

\* C17: every operation on Buffer objects runs to its end, and after it the
\* use count of each storage is the number of live views that refer to it;
\* a storage is released exactly when that number is zero
C17_CountsLiveViews ==
    /\ pc # "crashed"
    /\ \A s \in 1 .. MaxStorages :
        /\ storages[s].state = "live" =>
                storages[s].mUseCount = Referring(s) /\ Referring(s) > 0
        /\ storages[s].state # "live" => Referring(s) = 0

\* C19: slice(offset, length) on a non-null view throws and changes nothing
\* whenever offset >= storage.size or offset + length > storage.size;
\* otherwise it returns a view of the same storage with the window
\* (offset, length) and raises the use count by one
C19_SliceRange ==
    [][last'.act = "Slice" /\ pc' # "crashed" =>
        LET src == views[last'.from]
            whole == storages[src.mUnderlying].mSize
        IN  IF last'.offset >= whole \/ last'.offset + last'.size > whole
            THEN last'.threw /\ views' = views /\ storages' = storages
            ELSE /\ ~last'.threw
                 /\ views' = [views EXCEPT
                                ![last'.view] =
                                    [live |-> TRUE,
                                     mUnderlying |-> src.mUnderlying,
                                     mOffset |-> last'.offset,
                                     mSize |-> last'.size]]
                 /\ storages' = [storages EXCEPT
                                   ![src.mUnderlying].mUseCount = @ + 1]]_vars

\* C20: for every non-null view v, v.slice(0, v.size()) succeeds and its
\* data pointer is v.data()
C20_WholeSliceSameData ==
    \A v \in LiveViews :
        views[v].mUnderlying # 0 =>
            LET r == Slice(storages, views[v], 0, Size(views[v])) IN
            ~r.threw /\ Data(r.view) = Data(views[v])

\* C18: while the record of an operation is in the registry, the storage of
\* the buffer moved into it is not released and its use count is at least 1
C18_HeldWhileRecorded ==
    \A id \in DOMAIN mEvents :
        LET s == mEvents[id].buffer.mUnderlying IN
        s # 0 => storages[s].state = "live" /\ storages[s].mUseCount >= 1

\* C18: a receive was armed again while user code holds no view of its
\* buffer any more: the record alone keeps the storage
C18_Witness ==
    /\ last.act = "Handle"
    /\ last.kind = "Receive"
    /\ last.rearm = "submitted"
    /\ last.id \in DOMAIN mEvents
    /\ LET s == mEvents[last.id].buffer.mUnderlying IN
        /\ s # 0
        /\ storages[s].mUseCount = 1
        /\ \A v \in LiveViews : views[v].mUnderlying # s

\* C21: the identifier a call assigns is above 0 and above every identifier
\* assigned before it, whether that one's record is still in the registry,
\* was removed or belonged to a call that failed; the next call gets a
\* larger one
C21_IdentifiersIncrease ==
    /\ [](mNextEventId > 0)
    /\ [](\A id \in DOMAIN mEvents \cup failed : id < mNextEventId)
    /\ [][/\ mNextEventId' >= mNextEventId
          /\ last'.act = "Call" =>
                /\ last'.id > 0
                /\ last'.id >= mNextEventId
                /\ mNextEventId' > last'.id
                /\ last'.id \notin DOMAIN mEvents \cup failed]_vars

\* C21: a call got an identifier while the record of the identifier before
\* it was gone from the registry
C21_Witness ==
    /\ last.act = "Call"
    /\ ~last.raised
    /\ last.id \in DOMAIN mEvents
    /\ last.id > FirstEventId
    /\ last.id - 1 \notin DOMAIN mEvents

\* C22: when the completion run obtained names no record, run raises an
\* internal error: it leaves the loop with the registry as it was
C22_UnknownIsRejected ==
    [][pc = "wait" /\ cq # << >> /\ Head(cq).id \notin DOMAIN mEvents
            /\ pc' # pc =>
        pc' = "main" /\ mEvents' = mEvents]_vars

\* the response of a connect carries an error exactly when the result is
\* negative, the text being that of the negated result, and the server
\* address of the record
C23_ErrorIffNegative ==
    last.act = "Invoke" /\ last.kind = "Connect" =>
        /\ (last.error # << >>) = (last.res < 0)
        /\ last.res < 0 => last.error = <<[strerror |-> -last.res]>>
        /\ last.serverAddress = mEvents[last.id].serverAddress

\* C23: the continuation of a connect is invoked once for the connect, with
\* an error exactly when the result is negative and with the server address
\* given to the call
C23_ConnectReportsOnce ==
    /\ C23_ErrorIffNegative
    /\ last.act = "Invoke" /\ last.kind = "Connect" => ~last.redelivered

\* C24: a wait that returns a negative code other than the timeout makes run
\* raise with no handler invoked, no deferred callback executed and the
\* registry unchanged; a wait that timed out never makes run raise: run
\* goes on to the drain
C24_WaitFailureIsFatal ==
    /\ [](last.act = "WaitFail" =>
            last.res < 0 /\ last.res # -ETIME /\ pc = "main")
    /\ [][last'.act = "WaitFail" =>
            /\ pc = "wait"
            /\ mEvents' = mEvents
            /\ cq' = cq
            /\ mDispatched' = mDispatched
            /\ executed' = executed]_vars
    /\ [][last'.act = "WaitTimeout" =>
            pc' = "drain" /\ mEvents' = mEvents]_vars

\* C24: the wait failed while records were in the registry
C24_Witness ==
    /\ last.act = "WaitFail"
    /\ DOMAIN mEvents # {}
    /\ pc = "main"

\* C25: a completion with a negative result never makes run raise: the
\* handler finishes, the record is removed or submitted again, and run goes
\* on to the drain of the iteration
C25_NegativeResultNeverRaises ==
    last.act = "Handle" /\ last.res < 0 =>
        /\ ~last.raised
        /\ pc = "drain"
        /\ last.retained = (last.rearm # "none")

\* C26: a completion entry is handed to a handler at most once, with or
\* without a continuation, also when an exception left run while the entry
\* was being handled and run was called again
C26_HandledAtMostOnce ==
    \/ last.act = "Invoke"
    \/ last.act = "Handle" /\ ~last.invoked
    => ~last.redelivered

\* the number of submission entries, queued in the ring or held by the
\* kernel, that carry the identifier id
Outstanding(id) ==
    Cardinality({i \in DOMAIN sq : sq[i].id = id})
    + BagCardinality([e \in {x \in BagToSet(inflight) : x.id = id} |->
                         CopiesIn(e, inflight)])

\* the identifiers carried by the entries queued or held by the kernel
OutstandingIds ==
    {sq[i].id : i \in DOMAIN sq} \cup {e.id : e \in BagToSet(inflight)}

\* C27: between two iterations of run every record of the registry has
\* exactly one entry queued or in flight, and every such entry belongs to a
\* record: as many records as outstanding entries
C27_OneEntryPerRecord ==
    pc = "top" =>
        /\ \A id \in DOMAIN mEvents : Outstanding(id) = 1
        /\ OutstandingIds \subseteq DOMAIN mEvents
        /\ Cardinality(DOMAIN mEvents) = Len(sq) + BagCardinality(inflight)

\* C28: at any time at most one submission entry, queued or in flight,
\* carries a given identifier, so that the completions of one operation are
\* handled one after the other
C28_AtMostOneEntryPerId ==
    \A id \in OutstandingIds : Outstanding(id) <= 1

\* C29: a wait that returned a completion or timed out is followed by the
\* drain of the deferred queue before run waits again: after a completion
\* the drain begins when the handler has returned and the completion has
\* been marked seen, and no deferred callback runs during the handler; after
\* a timeout the drain begins at once with the registry unchanged
C29_DrainAfterEveryWait ==
    /\ [][pc = "wait" /\ pc' # "wait" /\ last'.act # "WaitFail" =>
            pc' \in {"callback", "drain"}]_vars
    /\ [][pc = "callback" /\ pc' # "callback" =>
            pc' = "drain" /\ cq' = Tail(cq)]_vars
    /\ [][pc = "callback" => executed' = executed]_vars
    /\ [][last'.act = "WaitTimeout" =>
            pc' = "drain" /\ mEvents' = mEvents /\ cq' = cq]_vars

\* C30: every view of a storage, however it was obtained, has a window
\* inside the storage: offset + length is at most the size of the storage
C30_WindowInsideStorage ==
    \A v \in LiveViews :
        views[v].mUnderlying # 0 =>
            views[v].mOffset + views[v].mSize
                <= storages[views[v].mUnderlying].mSize

\* C31: whenever an accept has been submitted again, for a TCP and for a
\* Unix-domain listener alike, the staged peer address is all zero and of
\* the listener's family, and the length handed to the kernel is the size
\* of that family's sockaddr
C31_AcceptRearmResetsStaging ==
    last.act = "Handle" /\ last.kind = "Accept" /\ last.rearm # "none" =>
        LET ev == mEvents[last.id] IN
        /\ ev.clientAddress = [type |-> ev.server, zero |-> TRUE]
        /\ ev.clientAddressLength = SizeofSockaddr(ev.server)

\* C32: copying, copy-assigning from or slicing a null view gives a null
\* view of size 0; nothing faults and no storage gains a use (a copy
\* assignment only gives up the use its target had)
C32_NullViewIsCopied ==
    [][/\ last'.act \in {"CopyConstruct", "CopyAssign", "Slice"}
       /\ views[last'.from].mUnderlying = 0
       =>
       /\ pc' = pc
       /\ views'[last'.view] = NullView
       /\ Size(views'[last'.view]) = 0
       /\ storages' = IF last'.act = "CopyAssign"
                      THEN decreaseUse(storages,
                                       views[last'.view].mUnderlying)
                      ELSE storages]_vars

\* the timers of the registry
Timers == {id \in DOMAIN mEvents : mEvents[id].kind = "Timer"}

\* run is not executing: it has not been called, it has returned or raised,
\* or the process is gone
NotRunning == pc = "main" \/ pc \in Dead

\* timer id waits for a deadline that lies within the clock's range (its
\* continuation is not the one running)
WithinClock(id) ==
    /\ id \in Timers
    /\ ~(pc = "callback" /\ Head(cq).id = id)
    /\ mEvents[id].startTime * TickNs + mEvents[id].duration
            <= MaxNow * TickNs

\* C33: a timer whose continuation always returns true never leaves the
\* registry; a completion before its deadline prepares it again, when the
\* ring has a free entry, with the delay that remains, never with more than
\* the delay programmed before, and submits it unless run raises; and while
\* run executes the
\* continuation of such a timer is invoked again and again: once armed with
\* a deadline the clock can reach, the timer is invoked
C33_PeriodicTimerKeepsFiring ==
    /\ [][\A id \in Timers : id \in DOMAIN mEvents']_vars
    /\ [][last'.act = "Handle" /\ last'.kind = "Timer" /\ last'.early =>
            LET id == last'.id
                ev == mEvents'[id]
            IN  /\ id \in Timers
                /\ last'.rearm # "refused" =>
                       TimeSpecNs(ev.eventDelay)
                           = ev.duration - (now - ev.startTime) * TickNs
                /\ TimeSpecNs(ev.eventDelay)
                       <= TimeSpecNs(mEvents[id].eventDelay)
                /\ ~last'.raised => last'.rearm = "submitted"]_vars
    /\ \A id \in 1 .. MaxId :
            WithinClock(id) ~>
                (NotRunning \/ (last.act = "Invoke" /\ last.id = id))

\* C33: the continuation of a timer with a positive duration returned true
\* after the clock had advanced, and the timer was submitted again with its
\* clock restarted
C33_Witness ==
    /\ last.act = "Handle"
    /\ last.kind = "Timer"
    /\ last.invoked /\ last.ret
    /\ last.rearm = "submitted"
    /\ mEvents[last.id].duration > 0
    /\ mEvents[last.id].startTime = now
    /\ now > 0

\* C34: whenever a timer has been submitted, by the call or by its handle,
\* the delay programmed into the record is max(0, duration - (now - start)),
\* held as seconds and nanoseconds that are not negative with the
\* nanoseconds below 10^9; after the continuation returned true, start is
\* now and the delay is the whole duration
C34_ProgrammedDelay ==
    /\ last.act \in {"Call", "Handle"}
    /\ last.id \in Timers
    /\ last.act = "Handle" => last.rearm \in {"queued", "submitted"}
    =>
    LET ev == mEvents[last.id]
        ts == ev.eventDelay
    IN  /\ ts.tv_sec * Den + ts.tv_nsec
              = Max(0, ev.duration - (now - ev.startTime) * TickNs)
        /\ ts.tv_sec >= 0
        /\ ts.tv_nsec >= 0 /\ ts.tv_nsec < Den
        /\ last.act = "Handle" /\ last.invoked /\ last.ret =>
              /\ ev.startTime = now
              /\ ts.tv_sec * Den + ts.tv_nsec = Max(0, ev.duration)

\* C34: a timer of one second, completed before its deadline after the
\* clock advanced, was submitted again with the part of the second that is
\* left
C34_Witness ==
    /\ last.act = "Handle"
    /\ last.id \in Timers
    /\ last.early
    /\ last.rearm = "submitted"
    /\ mEvents[last.id].startTime < now
    /\ mEvents[last.id].duration = Den
    /\ mEvents[last.id].eventDelay.tv_sec = 0
    /\ mEvents[last.id].eventDelay.tv_nsec > 0

\* C34: a timer of one second was submitted with one second and no
\* nanoseconds
C34_WitnessSecond ==
    /\ last.act = "Call"
    /\ last.id \in Timers
    /\ mEvents[last.id].eventDelay = [tv_sec |-> 1, tv_nsec |-> 0]

\* C34: a timer of a negative duration was submitted with delay 0
C34_WitnessClamped ==
    /\ last.act = "Call"
    /\ last.id \in Timers
    /\ mEvents[last.id].duration < 0
    /\ mEvents[last.id].eventDelay = ZeroTimeSpec

\* C35 (as stated): the record of an operation submitted with an empty
\* continuation, of whatever kind, is removed when its first completion is
\* handled: nothing is submitted again and nothing is raised
C35_EmptyNeverResubmitted ==
    [][last'.act = "Handle" /\ ~mEvents[last'.id].cb =>
            /\ last'.id \notin DOMAIN mEvents'
            /\ last'.rearm = "none"
            /\ ~last'.raised]_vars

\* C35 (amended): no empty continuation is ever invoked; the record of an
\* operation submitted with an empty continuation is removed, with nothing
\* submitted again and nothing raised, when a completion of it is handled,
\* unless it is a timer and the completion came before its deadline: such a
\* timer keeps its record and is prepared again like any other timer
C35_EmptyRemovedUnlessEarlyTimer ==
    /\ [](pc = "callback" => mEvents[Head(cq).id].cb)
    /\ [][last'.act = "Handle" /\ ~mEvents[last'.id].cb =>
            IF mEvents[last'.id].kind = "Timer" /\ ~Due(mEvents[last'.id])
            THEN /\ last'.early
                 /\ last'.id \in DOMAIN mEvents'
                 /\ ~last'.raised => last'.rearm = "submitted"
            ELSE /\ last'.id \notin DOMAIN mEvents'
                 /\ last'.rearm = "none"
                 /\ ~last'.raised
                 /\ pc' = "drain"]_vars

\* C35: the completion of an operation that is no timer and has an empty
\* continuation was handled, and its record is gone
C35_Witness ==
    /\ last.act = "Handle"
    /\ last.kind \in Repeatable \ {"Timer"}
    /\ ~last.invoked
    /\ last.res > 0
    /\ last.id \notin DOMAIN mEvents
    /\ pc = "drain"

\* C35: a timer with an empty continuation was submitted again after a
\* completion before its deadline
C35_WitnessEarlyTimer ==
    /\ last.act = "Handle"
    /\ last.early
    /\ last.id \in Timers
    /\ ~mEvents[last.id].cb
    /\ last.rearm = "submitted"

\* the callbacks in the deferred queue
Queued == {mDispatched[i] : i \in DOMAIN mDispatched}

\* C36: however the calls of dispatch interleave with the drains, no
\* callback is executed more than once, no callback leaves the queue without
\* having been executed, and the queue is emptied only by the drain on the
\* reactor thread
C36_ExecutedOnceNoneDropped ==
    /\ [](\A t \in 1 .. MaxDispatch : executed[t] <= 1)
    /\ [][\A t \in Queued : t \notin Queued' => executed'[t] > 0]_vars
    /\ [][Queued' # Queued /\ Queued \ Queued' # {} => pc = "drain"]_vars

\* C37: clear on a view zeroes every byte of the storage, so that every view
\* and slice of that storage reads zeros afterwards; the use counts, the
\* sizes and all windows stay as they are; clear on a null view changes
\* nothing
C37_ClearZeroesStorage ==
    [][last'.act = "Clear" =>
        LET v == last'.view
            s == views[v].mUnderlying
        IN  /\ views' = views
            /\ IF s = 0
               THEN storages' = storages
               ELSE /\ storages' = [storages EXCEPT
                                      ![s].mData = Zeros(storages[s].mSize)]
                    /\ \A w \in LiveViews :
                          views[w].mUnderlying = s =>
                              \A i \in 1 .. Size(views[w]) :
                                  Bytes(storages', views'[w])[i] = 0]_vars

\* C37: a slice was cleared while bytes of the storage outside its window
\* were not zero, and another view of the storage is alive
C37_Witness ==
    /\ last.act = "Clear"
    /\ last.size > 0
    /\ \E w \in LiveViews \ {last.view} :
            views[w].mUnderlying = views[last.view].mUnderlying

\* C37: a null view was cleared
C37_WitnessNull ==
    /\ last.act = "Clear"
    /\ views[last.view] = NullView
    /\ \E s \in 1 .. MaxStorages :
            storages[s].state = "live" /\ \E i \in 1 .. storages[s].mSize :
                storages[s].mData[i] # 0

(* ----------------------- destroying the reactor -------------------------- *)
\* ~unique_ptr<Event> for the records ids of the registry: each record is
\* deleted, and ~Buffer of the buffer it holds runs decreaseUse
RECURSIVE ReleaseAll(_, _, _)
ReleaseAll(store, events, ids) ==
    IF ids = {} THEN store
    ELSE LET id == CHOOSE i \in ids : TRUE IN
         ReleaseAll(decreaseUse(store, events[id].buffer.mUnderlying),
                    events, ids \ {id})

\* a destruction of the registry that leaves the buffers of the records alone
DestroyedRecordsLeaked(store, events) == store

\* ~unordered_map of mEvents: every record and the buffer it holds
DestroyedRecords(store, events) == ReleaseAll(store, events, DOMAIN events)

\* ~EventLoop, the body: io_uring_queue_exit(&mRing); the ring, its queues
\* and the operations the kernel holds for it are gone. User code destroys
\* the reactor outside run, once no SubmitGuard refers to it
ExitRing ==
    /\ pc = "main"
    /\ ~unwinding
    /\ guardStack = << >>
    /\ depth' = 0
    /\ sq' = << >>
    /\ inflight' = EmptyBag
    /\ cq' = << >>
    /\ pc' = "ring_exit"
    /\ last' = [NoStep EXCEPT !.act = "ExitRing"]
    /\ UNCHANGED <<lineVars, views, storages>>
    /\ UNCHANGED <<faults, mNextEventId, mEvents, guardStack, mDispatched,
                   mDispatchedMutex, nextToken, executed, stop, unwinding,
                   drain, now, run, failed>>

\* ~EventLoop, the members in reverse order of declaration: mDispatched
\* (the callbacks are destroyed, not called), mDispatchedMutex, mEvents
DestroyMembers ==
    /\ pc = "ring_exit"
    /\ mDispatched' = << >>
    /\ storages' = DestroyedRecords(storages, mEvents)
    /\ mEvents' = << >>
    /\ pc' = "destroyed"
    /\ last' = [NoStep EXCEPT !.act = "DestroyMembers"]
    /\ UNCHANGED <<lineVars, views>>
    /\ UNCHANGED <<depth, faults, mNextEventId, sq, inflight, cq, guardStack,
                   mDispatchedMutex, nextToken, executed, stop, unwinding,
                   drain, now, run, failed>>

\* a program that hands buffers to receive, dispatches from another
\* thread, runs the loop and destroys the reactor
NextDestroy ==
    \/ \E v \in 1 .. MaxViews : Allocate(v, MaxSize)
    \/ \E v, src \in 1 .. MaxViews : SliceView(v, src, 0, 1)
    \/ CallsWithBuffer({"Receive"}, BOOLEAN)
    \/ \E t \in 1 .. NumThreads : ThreadDispatch(t)
    \/ Loop
    \/ Draining
    \/ HandleInvoke
    \/ \E ret \in BOOLEAN, ok \in BOOLEAN : CallbackReturn(ret, ok)
    \/ KernelAtWait
    \/ ExitRing
    \/ DestroyMembers

SpecDestroy == Init /\ [][NextDestroy]_vars

\* the records of the registry that hold a view of storage s
Holders(s) == {id \in DOMAIN mEvents : mEvents[id].buffer.mUnderlying = s}

\* C38: destroying the reactor while records remain releases every record
\* and the buffer each record holds (the use count of a storage goes down by
\* the number of records holding it, and the storage is deleted when no view
\* is left), no continuation and no dispatched callback is invoked, and the
\* ring is torn down before the records and their buffers are released
C38_DestructionReleasesRecords ==
    /\ [][last'.act = "ExitRing" =>
            /\ depth' = 0 /\ sq' = << >> /\ inflight' = EmptyBag /\ cq' = << >>
            /\ mEvents' = mEvents /\ storages' = storages
            /\ executed' = executed]_vars
    /\ [][last'.act = "DestroyMembers" =>
            /\ last.act = "ExitRing"
            /\ depth = 0 /\ sq = << >> /\ inflight = EmptyBag /\ cq = << >>
            /\ mEvents' = << >>
            /\ mDispatched' = << >>
            /\ \A s \in 1 .. MaxStorages :
                LET n == Cardinality(Holders(s)) IN
                /\ storages'[s].mUseCount = storages[s].mUseCount - n
                /\ n > 0 /\ storages'[s].mUseCount = 0 =>
                        storages'[s].state = "released"
                /\ n = 0 \/ storages'[s].mUseCount > 0 =>
                        storages'[s].state = storages[s].state
            /\ executed' = executed
            /\ ~last'.invoked
            /\ pc' \notin UserPcs]_vars
    /\ [][(pc \in {"ring_exit", "destroyed"}) =>
            (pc' \notin UserPcs /\ executed' = executed)]_vars

\* C38: the reactor was destroyed while a record holding the last view of a
\* storage and a dispatched callback that never ran remained
C38_Witness ==
    /\ last.act = "DestroyMembers"
    /\ mEvents = << >>
    /\ \E s \in 1 .. MaxStorages :
        storages[s].state = "released" /\ storages[s].mUseCount = 0
    /\ \E t \in 1 .. MaxDispatch : t < nextToken /\ executed[t] = 0

\* C38: the reactor was destroyed while two records held views of a storage
\* a live view still holds
C38_WitnessShared ==
    /\ last.act = "DestroyMembers"
    /\ \E s \in 1 .. MaxStorages :
        storages[s].state = "live" /\ storages[s].mUseCount = 1

====
